---- MODULE Spec2Model ----
(***************************************************************************)
(* And-Inverter Graph with structural hashing (src/aig_structure) and the  *)
(* k-feasible cut enumerator (src/algorithms/cut_enumerator.rs), driven    *)
(* the way src/input_output/read_aiger.rs and src/main.rs drive them.      *)
(***************************************************************************)
EXTENDS Integers, Sequences, FiniteSets, TLC

\* ------------------------------------------------------------------ bounds
\* number of declared primary inputs (header field I); input ids are 1..I
NumInputs == 2
\* largest number of AND gates a file holds (header field A)
MaxGates == 3
\* largest feasibility bound k handed to the enumerator
MaxK == 3
\* largest Signal index and node id used by free-standing create_and calls
MaxIndex == 3
\* largest number of free-standing create_and calls
MaxCalls == 3
\* number of primary inputs and of create_and calls of a hand-built chain
ChainInputs == 3
ChainGates == 2

\* ------------------------------------------------------------------ Signal
Signal(index, inverted) == [index |-> index, inverted |-> inverted]

invert(s) == Signal(s.index, ~s.inverted)

Const0 == Signal(0, FALSE)
Const1 == Signal(0, TRUE)

\* ------------------------------------------------------------------ AIG
VARIABLES
    node_map,       \* AIG.node_map: node id -> AndNode
    compute_table,  \* AIG.compute_table: (Signal, Signal) -> Signal
    calls,          \* number of create_and calls made so far
    last,           \* the last create_and call: arguments, id and returned Signal
    phase,          \* "build", or the analysis that ran last
    panicked,       \* the analysis ended in a panic
    cut_size,       \* the k of the last analysis
    topo_order,     \* CutEnumerator.topo_order
    cuts,           \* CutEnumerator.cuts: node id -> sequence of cuts
    target_node,    \* the target of calculate_cuts_single_node
    result          \* what calculate_cuts_single_node returned

vars == <<node_map, compute_table, calls, last, phase, panicked, cut_size,
          topo_order, cuts, target_node, result>>

\* the empty HashMap
EmptyMap == [x \in {} |-> x]

\* HashMap::insert
Insert(m, k, v) == [x \in DOMAIN m \cup {k} |-> IF x = k THEN v ELSE m[x]]

AndNode(l, r) == [left_signal |-> l, right_signal |-> r]

\* swap if a > b
check_swap(a, b) == IF a.index > b.index THEN <<b, a>> ELSE <<a, b>>

Outcome(ret, nm, ct) == [ret |-> ret, node_map |-> nm, compute_table |-> ct]

\* a plausible slip: the dedup table is keyed by the arguments as given
create_and_unswapped(a0, b0, new_index, nm, ct) ==
    LET a == a0
        b == b0
    IN  IF a.index = 0 /\ ~a.inverted THEN Outcome(Const0, nm, ct)
        ELSE IF b.index = 0 /\ ~b.inverted THEN Outcome(Const0, nm, ct)
        ELSE IF a.index = 0 /\ a.inverted THEN Outcome(b, nm, ct)
        ELSE IF b.index = 0 /\ b.inverted THEN Outcome(a, nm, ct)
        ELSE IF a.index = b.index /\ a.inverted # b.inverted THEN Outcome(Const0, nm, ct)
        ELSE IF a.index = b.index /\ a.inverted = b.inverted THEN Outcome(a, nm, ct)
        ELSE IF <<a, b>> \in DOMAIN ct
             THEN Outcome(Signal(ct[<<a, b>>].index, FALSE), nm, ct)
        ELSE LET new_signal == Signal(new_index, FALSE)
             IN  Outcome(new_signal,
                         Insert(nm, new_signal.index, AndNode(a, b)),
                         Insert(ct, <<a, b>>, new_signal))

\* a plausible slip: the complementation rule x /\ ~x = 0 is left out
create_and_no_complement(a0, b0, new_index, nm, ct) ==
    LET s1 == check_swap(a0, b0)
        s2 == check_swap(s1[1], s1[2])
        a == s2[1]
        b == s2[2]
    IN  IF a.index = 0 /\ ~a.inverted THEN Outcome(Const0, nm, ct)
        ELSE IF a.index = 0 /\ a.inverted THEN Outcome(b, nm, ct)
        ELSE IF a.index = b.index /\ a.inverted = b.inverted THEN Outcome(a, nm, ct)
        ELSE IF <<a, b>> \in DOMAIN ct
             THEN Outcome(Signal(ct[<<a, b>>].index, FALSE), nm, ct)
        ELSE LET new_signal == Signal(new_index, FALSE)
             IN  Outcome(new_signal,
                         Insert(nm, new_signal.index, AndNode(a, b)),
                         Insert(ct, <<a, b>>, new_signal))

\* a plausible slip: the dedup table is never consulted
create_and_no_reuse(a0, b0, new_index, nm, ct) ==
    LET s1 == check_swap(a0, b0)
        s2 == check_swap(s1[1], s1[2])
        a == s2[1]
        b == s2[2]
    IN  IF a.index = 0 /\ ~a.inverted THEN Outcome(Const0, nm, ct)
        ELSE IF a.index = 0 /\ a.inverted THEN Outcome(b, nm, ct)
        ELSE IF a.index = b.index /\ a.inverted # b.inverted THEN Outcome(Const0, nm, ct)
        ELSE IF a.index = b.index /\ a.inverted = b.inverted THEN Outcome(a, nm, ct)
        ELSE LET new_signal == Signal(new_index, FALSE)
             IN  Outcome(new_signal,
                         Insert(nm, new_signal.index, AndNode(a, b)),
                         Insert(ct, <<a, b>>, new_signal))

\* AIG::create_and on the tables nm (node_map) and ct (compute_table): the
\* returned Signal and the tables it leaves
create_and(a0, b0, new_index, nm, ct) ==
    LET s1 == check_swap(a0, b0)
        s2 == check_swap(s1[1], s1[2])
        a == s2[1]
        b == s2[2]
    IN  IF a.index = 0 /\ ~a.inverted THEN Outcome(Const0, nm, ct)
        ELSE IF a.index = 0 /\ a.inverted THEN Outcome(b, nm, ct)
        ELSE IF a.index = b.index /\ a.inverted # b.inverted THEN Outcome(Const0, nm, ct)
        ELSE IF a.index = b.index /\ a.inverted = b.inverted THEN Outcome(a, nm, ct)
        ELSE IF <<a, b>> \in DOMAIN ct
             THEN Outcome(Signal(ct[<<a, b>>].index, FALSE), nm, ct)
        ELSE LET new_signal == Signal(new_index, FALSE)
             IN  Outcome(new_signal,
                         Insert(nm, new_signal.index, AndNode(a, b)),
                         Insert(ct, <<a, b>>, new_signal))

\* the record kept of a create_and call
NoCall == [made |-> FALSE]
Call(a, b, id, out, nm, ct) ==
    [made |-> TRUE, a |-> a, b |-> b, new_index |-> id, ret |-> out.ret,
     allocated |-> (out.node_map # nm \/ out.compute_table # ct)]

\* AIG::new, and a CutEnumerator::new over it
Init ==
    /\ node_map = EmptyMap
    /\ compute_table = EmptyMap
    /\ calls = 0
    /\ last = NoCall
    /\ phase = "build"
    /\ panicked = FALSE
    /\ cut_size = 0
    /\ topo_order = <<>>
    /\ cuts = EmptyMap
    /\ target_node = 0
    /\ result = <<>>

\* ------------------------------------------------- free-standing create_and
CallSignals == {Signal(i, v) : i \in 0..MaxIndex, v \in BOOLEAN}
CallIds == 1..MaxIndex

\* one call aig.create_and(a, b, new_index) by an arbitrary caller
CreateAnd(a, b, new_index) ==
    /\ phase = "build"
    /\ calls < MaxCalls
    /\ LET out == create_and(a, b, new_index, node_map, compute_table)
       IN  /\ node_map' = out.node_map
           /\ compute_table' = out.compute_table
           /\ last' = Call(a, b, new_index, out, node_map, compute_table)
    /\ calls' = calls + 1
    /\ UNCHANGED <<phase, panicked, cut_size, topo_order, cuts, target_node, result>>

NextBuild == \E a \in CallSignals, b \in CallSignals, id \in CallIds : CreateAnd(a, b, id)

SpecBuild == Init /\ [][NextBuild]_vars

\* ------------------------------------------------------ topological order
\* the state of the walk: the visited set and the order built so far
Walk(visited, order) == [visited |-> visited, order |-> order]

RECURSIVE topological_visit_preorder(_, _, _)
\* a plausible slip: the node is pushed before its children are walked
topological_visit_preorder(nm, node_id, w) ==
    IF node_id \in w.visited THEN w
    ELSE LET w1 == Walk(w.visited \cup {node_id}, Append(w.order, node_id))
         IN  IF node_id \in DOMAIN nm
             THEN LET w2 == topological_visit_preorder(nm, nm[node_id].left_signal.index, w1)
                  IN  topological_visit_preorder(nm, nm[node_id].right_signal.index, w2)
             ELSE w1

RECURSIVE topological_visit(_, _, _)
\* AIG::topological_visit: postorder walk from node_id
topological_visit(nm, node_id, w) ==
    IF node_id \in w.visited THEN w
    ELSE LET w1 == Walk(w.visited \cup {node_id}, w.order)
             w3 == IF node_id \in DOMAIN nm
                   THEN LET w2 == topological_visit(nm, nm[node_id].left_signal.index, w1)
                        IN  topological_visit(nm, nm[node_id].right_signal.index, w2)
                   ELSE w1
         IN  Walk(w3.visited, Append(w3.order, node_id))

RECURSIVE VisitRoots(_, _, _, _)
\* the for loop of topological_sort over the keys, in the order keys() gives
VisitRoots(nm, keys, i, w) ==
    IF i > Len(keys) THEN w
    ELSE VisitRoots(nm, keys, i + 1, topological_visit(nm, keys[i], w))

\* a plausible slip: the walk starts from one root only, the first key
topological_sort_first_root(nm, keys) ==
    IF keys = <<>> THEN <<>>
    ELSE topological_visit(nm, keys[1], Walk({}, <<>>)).order

\* AIG::topological_sort, keys being the order in which node_map.keys()
\* yields the node ids
topological_sort(nm, keys) == VisitRoots(nm, keys, 1, Walk({}, <<>>)).order

\* every order in which a HashMap may yield the keys of nm
KeyOrders(nm) ==
    {p \in [1..Cardinality(DOMAIN nm) -> DOMAIN nm] :
        \A i \in DOMAIN p, j \in DOMAIN p : i # j => p[i] # p[j]}

\* ------------------------------------------------------------ CutEnumerator
\* a plausible slip: the test |union| <= cut_size is left out
compute_node_cuts_unbounded(nm, cs, node_idx, k) ==
    LET left == nm[node_idx].left_signal.index
        right == nm[node_idx].right_signal.index
        L == cs[left]
        R == cs[right]
    IN  [i \in 1..(Len(L) * Len(R)) |->
            L[((i - 1) \div Len(R)) + 1] \cup R[((i - 1) % Len(R)) + 1]]

\* the loops of compute_node_cuts: the union of every cut of left with every
\* cut of right, in loop order, kept when it has at most cut_size members
compute_node_cuts(nm, cs, node_idx, k) ==
    LET left == nm[node_idx].left_signal.index
        right == nm[node_idx].right_signal.index
        L == cs[left]
        R == cs[right]
        all == [i \in 1..(Len(L) * Len(R)) |->
                    L[((i - 1) \div Len(R)) + 1] \cup R[((i - 1) % Len(R)) + 1]]
    IN  SelectSeq(all, LAMBDA u : Cardinality(u) <= k)

\* compute_node_cuts indexes self.cuts with both fanins: a fanin without an
\* entry makes the index expression panic
LookupPanics(nm, cs, node_idx) ==
    \/ nm[node_idx].left_signal.index \notin DOMAIN cs
    \/ nm[node_idx].right_signal.index \notin DOMAIN cs

\* a plausible slip: the dominance test never fires
Dominated_never(all_cuts, i) == FALSE

\* c_2 is dominated: another candidate is a strict subset of it
Dominated(all_cuts, i) ==
    \E j \in 1..Len(all_cuts) :
        i # j /\ all_cuts[j] \subseteq all_cuts[i] /\ all_cuts[j] # all_cuts[i]

RECURSIVE FilterFrom(_, _, _)
\* the outer loop of filter_minimal_cuts from candidate i on
FilterFrom(all_cuts, i, res) ==
    IF i > Len(all_cuts) THEN res
    ELSE IF Dominated(all_cuts, i) THEN FilterFrom(all_cuts, i + 1, res)
    ELSE IF \E x \in 1..Len(res) : res[x] = all_cuts[i]
         THEN FilterFrom(all_cuts, i + 1, res)
    ELSE FilterFrom(all_cuts, i + 1, Append(res, all_cuts[i]))

\* CutEnumerator::filter_minimal_cuts
filter_minimal_cuts(all_cuts) == FilterFrom(all_cuts, 1, <<>>)

\* a plausible slip: the trivial cut {node_idx} of an AND-node is not appended
NodeCuts_no_trivial(nm, cs, node_idx, k) ==
    IF node_idx \in DOMAIN nm
    THEN filter_minimal_cuts(compute_node_cuts(nm, cs, node_idx, k))
    ELSE <<{node_idx}>>

\* a plausible slip: the trivial cut {node_idx} is put first, not last
NodeCuts_trivial_first(nm, cs, node_idx, k) ==
    IF node_idx \in DOMAIN nm
    THEN <<{node_idx}>> \o filter_minimal_cuts(compute_node_cuts(nm, cs, node_idx, k))
    ELSE <<{node_idx}>>

\* the body of the traversal loop for one id of the order
NodeCuts(nm, cs, node_idx, k) ==
    IF node_idx \in DOMAIN nm
    THEN Append(filter_minimal_cuts(compute_node_cuts(nm, cs, node_idx, k)), {node_idx})
    ELSE <<{node_idx}>>

\* the state of the traversal: the cuts table and whether a lookup panicked
Pass(cs, p) == [cuts |-> cs, panicked |-> p]

RECURSIVE Traverse(_, _, _, _, _)
\* "1. topologically traverse": the loop over nodes, shared by both operations
Traverse(nm, nodes, i, k, cs) ==
    IF i > Len(nodes) THEN Pass(cs, FALSE)
    ELSE IF nodes[i] \in DOMAIN nm /\ LookupPanics(nm, cs, nodes[i]) THEN Pass(cs, TRUE)
    ELSE Traverse(nm, nodes, i + 1, k, Insert(cs, nodes[i], NodeCuts(nm, cs, nodes[i], k)))

\* the inputs the reader builds: Signal(k+1, false) for k in 0..I
Inputs == [i \in 1..NumInputs |-> Signal(i, FALSE)]

SeqContains(s, x) == \E i \in 1..Len(s) : s[i] = x

\* iter().position(): the first index holding x (0 when there is none)
Position(s, x) ==
    IF SeqContains(s, x) THEN CHOOSE i \in 1..Len(s) : s[i] = x /\ \A j \in 1..(i - 1) : s[j] # x
    ELSE 0

\* a plausible slip: the check of the target is left out
TargetKnown_unchecked(inputs, order, target) == TRUE

\* is_in_input || is_in_topo: the target is an input or is in the order
TargetKnown(inputs, order, target) ==
    \/ \E i \in 1..Len(inputs) : inputs[i].index = target
    \/ SeqContains(order, target)

\* the order enumerate_cuts walks: the topological order, or the input ids
\* when that is empty
EnumerationOrder(nm, keys, inputs) ==
    LET order == topological_sort(nm, keys)
    IN  IF order = <<>> THEN [i \in 1..Len(inputs) |-> inputs[i].index] ELSE order

\* a plausible slip: the slice ends before the target (..pos for ..=pos)
RelevantNodes_exclusive(order, target) ==
    LET pos == Position(order, target)
        prefix == IF pos # 0 THEN SubSeq(order, 1, pos - 1) ELSE <<>>
    IN  IF prefix = <<>> THEN <<target>> ELSE prefix

\* the nodes calculate_cuts_single_node walks: the prefix of the order ending
\* at the target, or the target alone when that is empty
RelevantNodes(order, target) ==
    LET pos == Position(order, target)
        prefix == IF pos # 0 THEN SubSeq(order, 1, pos) ELSE <<>>
    IN  IF prefix = <<>> THEN <<target>> ELSE prefix

\* what a run of an enumerator operation leaves: the fields of the
\* enumerator, the returned list and whether the run panicked
Run(order, cs, res, p) == [topo_order |-> order, cuts |-> cs, result |-> res, panicked |-> p]

\* CutEnumerator::enumerate_cuts on the node table nm, keys being the order
\* in which node_map.keys() yields the ids
enumerate_cuts(nm, k, inputs, keys) ==
    LET order == EnumerationOrder(nm, keys, inputs)
        pass == Traverse(nm, order, 1, k, EmptyMap)
    IN  Run(order, pass.cuts, <<>>, pass.panicked)

\* CutEnumerator::calculate_cuts_single_node on the node table nm
calculate_cuts_single_node(nm, k, inputs, target, keys) ==
    LET order == topological_sort(nm, keys)
        pass == Traverse(nm, RelevantNodes(order, target), 1, k, EmptyMap)
    IN  IF ~TargetKnown(inputs, order, target)
        THEN Run(order, EmptyMap, <<>>, FALSE)
        ELSE Run(order, pass.cuts,
                 IF ~pass.panicked /\ target \in DOMAIN pass.cuts
                 THEN pass.cuts[target] ELSE <<>>,
                 pass.panicked)

\* ------------------------------------------------------- reader and driver
\* to_signal of read_aiger: literal -> Signal
to_signal(lit) == Signal(lit \div 2, lit % 2 = 1)

\* the index of the n-th AND gate (n from 0), no latches: lhs / 2
GateIndex(n) == (2 * NumInputs + 2 + 2 * n) \div 2

\* the largest id a file can name
MaxId == GateIndex(MaxGates - 1)

\* the reader decodes one AND gate, rhs0 = lhs - delta0 and rhs1 = rhs0 - delta1
\* with deltas >= 0 (a well-formed file has delta0 > 0, which the reader does
\* not check), and builds it; the Signal create_and returns is dropped
ReadGate(rhs0, rhs1) ==
    /\ phase = "build"
    /\ calls < MaxGates
    /\ rhs0 <= 2 * GateIndex(calls)
    /\ rhs1 <= rhs0
    /\ LET out == create_and(to_signal(rhs0), to_signal(rhs1), GateIndex(calls),
                             node_map, compute_table)
       IN  /\ node_map' = out.node_map
           /\ compute_table' = out.compute_table
    /\ calls' = calls + 1
    /\ UNCHANGED <<last, phase, panicked, cut_size, topo_order, cuts, target_node, result>>

\* CutEnumerator::enumerate_cuts(k, inputs) on a new enumerator
EnumerateCuts(k, keys) ==
    /\ phase = "build"
    /\ LET run == enumerate_cuts(node_map, k, Inputs, keys)
       IN  /\ topo_order' = run.topo_order
           /\ cuts' = run.cuts
           /\ panicked' = run.panicked
    /\ phase' = "enumerated"
    /\ cut_size' = k
    /\ UNCHANGED <<node_map, compute_table, calls, last, target_node, result>>

\* CutEnumerator::calculate_cuts_single_node(k, inputs, target) on a new
\* enumerator
CalculateCutsSingleNode(k, target, keys) ==
    /\ phase = "build"
    /\ LET run == calculate_cuts_single_node(node_map, k, Inputs, target, keys)
       IN  /\ topo_order' = run.topo_order
           /\ cuts' = run.cuts
           /\ result' = run.result
           /\ panicked' = run.panicked
    /\ phase' = "single"
    /\ cut_size' = k
    /\ target_node' = target
    /\ UNCHANGED <<node_map, compute_table, calls, last>>

\* the literals a gate may name, the bounds k and the targets tried
Literals == 0..(2 * MaxId)
CutSizes == 0..MaxK
Targets == 0..(MaxId + 1)

Next ==
    \/ \E rhs0 \in Literals, rhs1 \in Literals : ReadGate(rhs0, rhs1)
    \/ \E k \in CutSizes, keys \in KeyOrders(node_map) : EnumerateCuts(k, keys)
    \/ \E k \in CutSizes, t \in Targets, keys \in KeyOrders(node_map) :
           CalculateCutsSingleNode(k, t, keys)

Spec == Init /\ [][Next]_vars

\* ------------------------------------------------------- hand-built chain
\* the inputs x1..xN of a graph built by direct create_and calls
ChainInputSignals == [i \in 1..ChainInputs |-> Signal(i, FALSE)]

\* the id the n-th call (n from 0) supplies: the ids after the inputs, in turn
ChainId(n) == ChainInputs + 1 + n

ChainSignals == {Signal(i, v) : i \in 0..(ChainInputs + ChainGates), v \in BOOLEAN}

\* one call aig.create_and(a, b, id) of a dependency-ordered build: both
\* children are constants, inputs or ids supplied before
BuildNode(a, b) ==
    /\ phase = "build"
    /\ calls < ChainGates
    /\ a.index < ChainId(calls)
    /\ b.index < ChainId(calls)
    /\ LET out == create_and(a, b, ChainId(calls), node_map, compute_table)
       IN  /\ node_map' = out.node_map
           /\ compute_table' = out.compute_table
           /\ last' = Call(a, b, ChainId(calls), out, node_map, compute_table)
    /\ calls' = calls + 1
    /\ UNCHANGED <<phase, panicked, cut_size, topo_order, cuts, target_node, result>>

\* CutEnumerator::enumerate_cuts(k, inputs) over the hand-built graph
EnumerateChainCuts(k, keys) ==
    /\ phase = "build"
    /\ LET run == enumerate_cuts(node_map, k, ChainInputSignals, keys)
       IN  /\ topo_order' = run.topo_order
           /\ cuts' = run.cuts
           /\ panicked' = run.panicked
    /\ phase' = "enumerated"
    /\ cut_size' = k
    /\ UNCHANGED <<node_map, compute_table, calls, last, target_node, result>>

NextChain ==
    \/ \E a \in ChainSignals, b \in ChainSignals : BuildNode(a, b)
    \/ \E k \in CutSizes, keys \in KeyOrders(node_map) : EnumerateChainCuts(k, keys)

SpecChain == Init /\ [][NextChain]_vars

\* ------------------------------------------------------------------ claims
\* the two arguments name two different ids, neither a constant
IsNodePair(a, b) == a.index # 0 /\ b.index # 0 /\ a.index # b.index

\* C1: after a call create_and(a, b, id1), a second call with the same pair in
\* either argument order and any id returns the Signal the first call returned
\* and leaves the node table and the dedup table as they are.
C1_StructuralHashIdempotent ==
    last.made =>
        \A id2 \in CallIds :
            LET same == create_and(last.a, last.b, id2, node_map, compute_table)
                swap == create_and(last.b, last.a, id2, node_map, compute_table)
            IN  /\ same.ret = last.ret
                /\ swap.ret = last.ret
                /\ same.node_map = node_map /\ same.compute_table = compute_table
                /\ swap.node_map = node_map /\ swap.compute_table = compute_table

\* a call that built a new node after earlier calls had built others
C1_Witness ==
    /\ last.made /\ last.allocated
    /\ IsNodePair(last.a, last.b)
    /\ last.a.index > last.b.index
    /\ Cardinality(DOMAIN node_map) >= 2

\* C2: create_and with a constant 0 argument returns constant 0, with a
\* constant 1 argument returns the other argument, on x and invert(x) returns
\* constant 0, on x and x returns x; none of these calls changes either table.
C2_AlgebraicSimplification ==
    last.made =>
        /\ (last.a = Const0 \/ last.b = Const0) => (last.ret = Const0 /\ ~last.allocated)
        /\ last.a = Const1 => (last.ret = last.b /\ ~last.allocated)
        /\ last.b = Const1 => (last.ret = last.a /\ ~last.allocated)
        /\ last.b = invert(last.a) => (last.ret = Const0 /\ ~last.allocated)
        /\ last.b = last.a => (last.ret = last.a /\ ~last.allocated)

\* a call on x and invert(x), x not a constant, on a table that holds nodes
C2_Witness ==
    /\ last.made
    /\ last.b = invert(last.a)
    /\ last.a.index # 0
    /\ last.new_index \notin DOMAIN node_map
    /\ node_map # EmptyMap

\* the canonical child pair of a node: the child with the smaller index first
CanonicalPair(node) == check_swap(node.left_signal, node.right_signal)

\* C3: no two distinct node ids of the node table have the same canonical
\* (left, right) child pair.
C3_NoStructuralDuplicates ==
    \A n1 \in DOMAIN node_map, n2 \in DOMAIN node_map :
        n1 # n2 => CanonicalPair(node_map[n1]) # CanonicalPair(node_map[n2])

\* a request for a pair already built, answered with the existing node
C3_Witness ==
    /\ last.made /\ ~last.allocated
    /\ IsNodePair(last.a, last.b)
    /\ last.ret.index \in DOMAIN node_map
    /\ last.ret.index # last.new_index
    /\ Cardinality(DOMAIN node_map) >= 2

\* an analysis ran to its end
Enumerated == phase = "enumerated" /\ ~panicked
SingleDone == phase = "single" /\ ~panicked

\* the ids of the two children of an AND-node
Children(nm, n) == {nm[n].left_signal.index, nm[n].right_signal.index}

InputIds == {Inputs[i].index : i \in 1..Len(Inputs)}

\* every child is a primary input or a node built before its parent
DependencyOrdered(nm) ==
    \A n \in DOMAIN nm :
        \A c \in Children(nm, n) : c \in InputIds \/ (c \in DOMAIN nm /\ c < n)

\* C4: in the order topological_sort returns, whatever the order of the roots,
\* every AND-node stands after both of its children.
C4_TopologicalValidity ==
    (phase # "build" /\ DependencyOrdered(node_map)) =>
        \A n \in DOMAIN node_map :
            /\ Position(topo_order, n) > 0
            /\ \A c \in Children(node_map, n) :
                   /\ Position(topo_order, c) > 0
                   /\ Position(topo_order, c) < Position(topo_order, n)

\* three nodes, the last over the other two, and the roots not walked in
\* increasing id order
C4_Witness ==
    /\ phase = "enumerated"
    /\ DependencyOrdered(node_map)
    /\ Cardinality(DOMAIN node_map) = 3
    /\ \E n \in DOMAIN node_map : Children(node_map, n) \subseteq DOMAIN node_map
    /\ \E i \in 1..Len(topo_order), j \in 1..Len(topo_order) :
           /\ i < j /\ topo_order[i] > topo_order[j]
           /\ topo_order[i] \in DOMAIN node_map /\ topo_order[j] \in DOMAIN node_map

RECURSIVE IsCut(_, _, _)
\* every path from n down to a leaf passes through a member of C
IsCut(nm, n, C) ==
    \/ n \in C
    \/ /\ n \in DOMAIN nm
       /\ IsCut(nm, nm[n].left_signal.index, C)
       /\ IsCut(nm, nm[n].right_signal.index, C)

\* the inclusion-minimal cuts of n with at most k members
MinimalCuts(nm, n, k) ==
    {C \in SUBSET (0..MaxId) :
        /\ Cardinality(C) <= k
        /\ IsCut(nm, n, C)
        /\ \A x \in C : ~IsCut(nm, n, C \ {x})}

\* the cuts a list holds, as a set
CutSet(list) == {list[i] : i \in 1..Len(list)}

\* C5: after enumerate_cuts(k, inputs) with k >= 1 on a dependency-ordered
\* graph, the cuts listed for an AND-node are exactly its minimal k-feasible
\* cuts.
C5_ExactMinimalCuts ==
    (Enumerated /\ cut_size >= 1 /\ DependencyOrdered(node_map)) =>
        \A n \in DOMAIN node_map :
            /\ n \in DOMAIN cuts
            /\ CutSet(cuts[n]) = MinimalCuts(node_map, n, cut_size)

\* a node over two AND-nodes whose candidate unions held dominated cuts, and
\* which is left with four cuts
C5_Witness ==
    /\ Enumerated /\ cut_size >= 2 /\ DependencyOrdered(node_map)
    /\ \E n \in DOMAIN node_map :
           /\ Children(node_map, n) \subseteq DOMAIN node_map
           /\ Len(cuts[n]) >= 4
           /\ \E i \in 1..Len(compute_node_cuts(node_map, cuts, n, cut_size)) :
                  Dominated(compute_node_cuts(node_map, cuts, n, cut_size), i)

\* C6 as claimed: after enumerate_cuts, {n} is listed for every node n, and
\* every primary input and the constant leaf 0 have exactly the list [{leaf}].
C6_TrivialCutPresence ==
    (Enumerated /\ cut_size >= 1) =>
        /\ \A n \in DOMAIN node_map : n \in DOMAIN cuts /\ {n} \in CutSet(cuts[n])
        /\ \A leaf \in InputIds \cup {0} :
               leaf \in DOMAIN cuts /\ cuts[leaf] = <<{leaf}>>

\* C7: in the table enumerate_cuts or calculate_cuts_single_node leaves, no
\* two distinct cuts of one id are related by strict subset.
C7_CutMinimality ==
    (Enumerated \/ SingleDone) =>
        \A n \in DOMAIN cuts :
            \A i \in 1..Len(cuts[n]), j \in 1..Len(cuts[n]) :
                cuts[n][i] # cuts[n][j] => ~(cuts[n][i] \subseteq cuts[n][j])

\* a single-node run whose target had a dominated candidate filtered out
C7_Witness ==
    /\ SingleDone
    /\ target_node \in DOMAIN node_map
    /\ Len(result) >= 3
    /\ \E i \in 1..Len(compute_node_cuts(node_map, cuts, target_node, cut_size)) :
           Dominated(compute_node_cuts(node_map, cuts, target_node, cut_size), i)

\* C8: after enumerate_cuts(k, inputs) with k positive, every cut of every id
\* of the cuts table has at most k members.
C8_CutFeasibility ==
    (Enumerated /\ cut_size >= 1) =>
        \A n \in DOMAIN cuts :
            \A i \in 1..Len(cuts[n]) : Cardinality(cuts[n][i]) <= cut_size

\* a node one of whose candidate unions was over the bound, another within it
C8_Witness ==
    /\ Enumerated /\ cut_size >= 2
    /\ \E n \in DOMAIN node_map :
           /\ Len(cuts[n]) >= 2
           /\ \E cl \in CutSet(cuts[node_map[n].left_signal.index]),
                 cr \in CutSet(cuts[node_map[n].right_signal.index]) :
                  Cardinality(cl \cup cr) > cut_size

\* C9 as claimed: when the prefix of the order ending at a constant or input
\* target is empty, calculate_cuts_single_node returns [{target}].
C9_EmptyPrefixFallback ==
    (SingleDone /\ cut_size >= 1 /\ target_node \in InputIds \cup {0}
                /\ Position(topo_order, target_node) = 0) =>
        result = <<{target_node}>>

ChainGraph ==
    Insert(Insert(EmptyMap, 4, AndNode(Signal(1, FALSE), Signal(2, FALSE))),
           5, AndNode(Signal(3, FALSE), Signal(4, FALSE)))

\* C11: on inputs 1, 2, 3 with 4 = create_and(x1, x2, 4) and
\* 5 = create_and(4, x3, 5), enumerate_cuts with k = 3 leaves the lists
\* cuts[4] = [{1,2},{4}] and cuts[5] = [{1,2,3},{3,4},{5}], trivial cut last.
C11_ScenarioChain ==
    (Enumerated /\ cut_size = 3 /\ node_map = ChainGraph) =>
        /\ cuts[4] = <<{1, 2}, {4}>>
        /\ cuts[5] = <<{1, 2, 3}, {3, 4}, {5}>>

\* the chain built by exactly the two calls of the scenario, enumerated at k = 3
C11_Witness ==
    /\ Enumerated /\ cut_size = 3 /\ node_map = ChainGraph
    /\ calls = 2
    /\ last.made /\ last.allocated
    /\ last.a = Signal(4, FALSE) /\ last.b = Signal(3, FALSE) /\ last.new_index = 5
    /\ DOMAIN cuts = 1..5

\* C12: on a dependency-ordered graph, calculate_cuts_single_node with a
\* target of the topological order finds every fanin it looks up in the
\* prefix it processed and returns the list enumerate_cuts stores for the
\* target.
C12_SingleAgreesWithWhole ==
    (phase = "single" /\ DependencyOrdered(node_map)
                      /\ SeqContains(topo_order, target_node)) =>
        /\ ~panicked
        /\ \A keys \in KeyOrders(node_map) :
               LET whole == enumerate_cuts(node_map, cut_size, Inputs, keys)
               IN  /\ ~whole.panicked
                   /\ target_node \in DOMAIN whole.cuts
                   /\ result = whole.cuts[target_node]

\* a target over an AND-node, with ids of the order left out of the prefix
C12_Witness ==
    /\ SingleDone /\ DependencyOrdered(node_map)
    /\ target_node \in DOMAIN node_map
    /\ Children(node_map, target_node) \cap DOMAIN node_map # {}
    /\ Position(topo_order, target_node) < Len(topo_order)
    /\ DOMAIN cuts # {topo_order[i] : i \in 1..Len(topo_order)}
    /\ Len(result) >= 3

\* the run of the operation of the current state under another key order
OtherRun(keys) ==
    IF phase = "enumerated"
    THEN enumerate_cuts(node_map, cut_size, Inputs, keys)
    ELSE calculate_cuts_single_node(node_map, cut_size, Inputs, target_node, keys)

\* C13 as claimed: for any graph, k and inputs, under every order of the
\* node-table keys enumerate_cuts leaves the same cuts table and
\* calculate_cuts_single_node returns the same list.
C13_DeterminismAsClaimed ==
    (phase # "build" /\ cut_size >= 1 /\ ~panicked) =>
        \A keys \in KeyOrders(node_map) :
            /\ ~OtherRun(keys).panicked
            /\ phase = "enumerated" => OtherRun(keys).cuts = cuts
            /\ phase = "single" => OtherRun(keys).result = result

\* C13, amended: under every order of the node-table keys enumerate_cuts ends
\* the same way, with the same cuts table when it returns; on a
\* dependency-ordered graph calculate_cuts_single_node returns under every
\* order, and on any graph it returns the same list under every order under
\* which it returns.
C13_Determinism ==
    \A keys \in KeyOrders(node_map) :
        /\ phase = "enumerated" =>
               /\ OtherRun(keys).panicked = panicked
               /\ ~panicked => OtherRun(keys).cuts = cuts
        /\ phase = "single" =>
               /\ DependencyOrdered(node_map) => (~panicked /\ ~OtherRun(keys).panicked)
               /\ (~panicked /\ ~OtherRun(keys).panicked) => OtherRun(keys).result = result

\* a single-node run on a dependency-ordered graph whose keys, in another
\* order, give another topological order and another prefix
C13_Witness ==
    /\ SingleDone /\ DependencyOrdered(node_map) /\ cut_size >= 2
    /\ target_node \in DOMAIN node_map
    /\ Len(result) >= 3
    /\ \E keys \in KeyOrders(node_map) :
           /\ OtherRun(keys).topo_order # topo_order
           /\ DOMAIN OtherRun(keys).cuts # DOMAIN cuts

====
